---- MODULE Spec2Model ----
(***************************************************************************)
(* Model of the voice-chat backend (src/app.py): the /chat handler, the    *)
(* chat orchestrator handle_chat_request, the document retriever           *)
(* search_documents / generate_embeddings and the speech synthesizer       *)
(* tts_ssml_and_send_audio_if_needed with its retry loop.                  *)
(*                                                                         *)
(* Python values are tagged records [t |-> type, v |-> payload]; strings   *)
(* are sequences of one-character strings so that concatenation, slicing   *)
(* and base64 encoding are computed as the code computes them.  Every call *)
(* to an external service is one step whose outcome is chosen by the       *)
(* environment.                                                            *)
(***************************************************************************)
EXTENDS Integers, Sequences, FiniteSets, TLC

(* ---------------------------- bounds ---------------------------------- *)
\* number of request slots (worker threads) of the server
MaxReq == 2
\* longest conversation history a client sends
MaxHist == 2

(* ----------------------- program constants ---------------------------- *)
MAX_RETRIES == 3
RETRY_DELAY == 2
\* default of the top_n parameter of search_documents
top_n == 3
\* the slice doc.get('content', '')[:200]
ContentCut == 200

Reqs == 1..MaxReq

(* ------------------------- Python values ------------------------------ *)
None == [t |-> "NoneType", v |-> <<>>]
\* a key that is not in a dict (dict.get then yields its default)
Absent == [t |-> "absent", v |-> <<>>]
Str(s) == [t |-> "str", v |-> s]
Lst(s) == [t |-> "list", v |-> s]
Bytes(s) == [t |-> "bytes", v |-> s]
\* a JSON number sent where a string is expected
Int5 == [t |-> "int", v |-> <<"5">>]
\* an initialised SDK client object
Client == [t |-> "client", v |-> <<>>]

\* the test "is not None" in place of truthiness
TruthyNotNone(x) == x.t # "NoneType"

\* Python truthiness: None, "" and [] are falsy
Truthy(x) ==
    /\ x.t # "NoneType"
    /\ (x.t \in {"str", "list", "bytes"} => x.v # <<>>)

\* dict.get(key, default)
Get(x, default) == IF x.t = "absent" THEN default ELSE x

\* s[:n]
Take(s, n) == SubSeq(s, 1, IF Len(s) < n THEN Len(s) ELSE n)

NoneText == <<"N", "o", "n", "e">>
\* "{x}" inside an f-string
Format(x) == IF x.t = "NoneType" THEN NoneText ELSE x.v

Turn(role, content) == [role |-> role, content |-> content]

(* --------------------------- literals --------------------------------- *)
SystemContent ==
    <<"Y", "o", "u", " ", "a", "r", "e", " ", "a", " ", "h", "e", "l", "p",
      "f", "u", "l", " ", "A", "I", " ", "a", "s", "s", "i", "s", "t", "a",
      "n", "t", ".">>

DocumentsHeader ==
    <<"\n", "\n", "R", "e", "l", "e", "v", "a", "n", "t", " ", "d", "o",
      "c", "u", "m", "e", "n", "t", "s", ":", "\n">>

SorryText ==
    <<"S", "o", "r", "r", "y", ",", " ", "I", " ", "e", "n", "c", "o", "u",
      "n", "t", "e", "r", "e", "d", " ", "a", "n", " ", "e", "r", "r", "o",
      "r", ".">>

EmptyMessageError ==
    <<"E", "m", "p", "t", "y", " ", "m", "e", "s", "s", "a", "g", "e", " ",
      "r", "e", "c", "e", "i", "v", "e", "d">>

InternalError ==
    <<"A", "n", " ", "i", "n", "t", "e", "r", "n", "a", "l", " ", "s", "e",
      "r", "v", "e", "r", " ", "e", "r", "r", "o", "r", " ", "o", "c", "c",
      "u", "r", "r", "e", "d">>

InternalText ==
    <<"S", "o", "r", "r", "y", ",", " ", "s", "o", "m", "e", "t", "h", "i",
      "n", "g", " ", "w", "e", "n", "t", " ", "w", "r", "o", "n", "g", " ",
      "o", "n", " ", "t", "h", "e", " ", "s", "e", "r", "v", "e", "r", ".">>

\* str(e) of the TypeError raised by None[:100]
NotSubscriptable ==
    <<"'", "N", "o", "n", "e", "T", "y", "p", "e", "'", " ", "o", "b", "j",
      "e", "c", "t", " ", "i", "s", " ", "n", "o", "t", " ", "s", "u", "b",
      "s", "c", "r", "i", "p", "t", "a", "b", "l", "e">>

\* str(e) of an error raised by the completion provider
ProviderErrorText == <<"A", "P", "I", " ", "e", "r", "r", "o", "r">>

(* ------------------------ base64.b64encode ---------------------------- *)
B64Alphabet ==
    <<"A", "B", "C", "D", "E", "F", "G", "H", "I", "J", "K", "L", "M", "N",
      "O", "P", "Q", "R", "S", "T", "U", "V", "W", "X", "Y", "Z", "a", "b",
      "c", "d", "e", "f", "g", "h", "i", "j", "k", "l", "m", "n", "o", "p",
      "q", "r", "s", "t", "u", "v", "w", "x", "y", "z", "0", "1", "2", "3",
      "4", "5", "6", "7", "8", "9", "+", "/">>

B64Char(i) == B64Alphabet[i + 1]

RECURSIVE B64Encode(_)
B64Encode(b) ==
    IF Len(b) = 0 THEN <<>>
    ELSE IF Len(b) = 1
    THEN <<B64Char(b[1] \div 4), B64Char((b[1] % 4) * 16), "=", "=">>
    ELSE IF Len(b) = 2
    THEN <<B64Char(b[1] \div 4),
           B64Char((b[1] % 4) * 16 + b[2] \div 16),
           B64Char((b[2] % 16) * 4), "=">>
    ELSE <<B64Char(b[1] \div 4),
           B64Char((b[1] % 4) * 16 + b[2] \div 16),
           B64Char((b[2] % 16) * 4 + b[3] \div 64),
           B64Char(b[3] % 64)>> \o B64Encode(SubSeq(b, 4, Len(b)))

(* ------------------------- environment inputs ------------------------- *)
\* non-empty messages a client sends
ValidMessages == {<<"h", "i">>, <<"y", "o">>}

\* the "message" key of the request body
MessageInputs ==
    {Absent, None, Str(<<>>), Int5} \cup {Str(m) : m \in ValidMessages}

HistoryTurns ==
    {Turn("user", Str(<<"h", "i">>)), Turn("assistant", Str(<<"o", "k">>))}

Histories == UNION {[1..n -> HistoryTurns] : n \in 0..MaxHist}

\* the "conversation_history" key of the request body
HistoryInputs == {Absent, None} \cup {Lst(h) : h \in Histories}

\* reply texts of the completion provider
Replies == {<<"o", "k">>, <<"n", "o">>}

\* audio buffers of a completed synthesis
AudioChoices == {<<>>, <<77>>, <<77, 97>>, <<77, 97, 110, 33>>}

\* the embedding vector of a successful embeddings call
Vector == Lst(<<"0.1", "0.2">>)

\* documents of the index as the search backend returns them: every field
\* is a string, null, or not in the result
RawResults ==
    { [title |-> Str(<<"T">>), content |-> Str(<<"c", "c">>),
       source |-> Str(<<"S">>)],
      [title |-> Absent, content |-> Absent, source |-> Absent],
      [title |-> Str(<<"T">>), content |-> None, source |-> Str(<<"S">>)] }

\* at most k_nearest_neighbors = top_n results come back
ResultLists == UNION {[1..n -> RawResults] : n \in 0..top_n}

EmbedOutcomes == {"ok", "raise"}
SearchOutcomes == {"ok", "raise_call", "raise_iter"}
CompletionOutcomes == {"ok", "null", "raise"}
SpeakOutcomes == {"completed", "canceled", "raise", "other"}

Event(op, out) == [op |-> op, out |-> out]

\* the inputs drawn while two requests are in flight
ConcurrentMessageInputs == {Str(<<>>)} \cup {Str(m) : m \in ValidMessages}
ConcurrentHistoryInputs ==
    {Lst(<<>>), Lst(<<Turn("assistant", Str(<<"o", "k">>))>>)}
ConcurrentResultLists ==
    {<<[title |-> Str(<<"T">>), content |-> Str(<<"c", "c">>),
        source |-> Str(<<"S">>)]>>}
ConcurrentAudioChoices == {<<77>>}
ConcurrentSearchOutcomes == {"ok", "raise_call"}
ConcurrentCompletionOutcomes == {"ok", "raise"}
ConcurrentSpeakOutcomes == {"completed", "raise"}

(* ------------------------------ state --------------------------------- *)
VARIABLES
    SPEECH_KEY,            \* module global read from the environment
    SPEECH_REGION,         \* module global read from the environment
    openai_env,            \* the four Azure OpenAI variables are all set
    search_env,            \* the search variables: unset, usable, or the
                           \* SearchClient constructor raises
    app,                   \* the process: starting, running or failed
    sts,                   \* status and JSON body returned by get_sts_token
    data,                  \* local of chat(): request.get_json()
    search_client,         \* module global: Client, or None when disabled
    audioFlagEnv,          \* SHOULD_STREAM_AUDIO_FROM_CHAT_COMPLETION in the
                           \* process environment
    clients,               \* request slots that receive a request
    pc,                    \* position of each request in chat()
    user_message,          \* local of chat / handle_chat_request
    conversation_history,  \* local of chat / handle_chat_request
    embedding,             \* value returned by generate_embeddings
    documents,             \* value returned by search_documents
    messages,              \* the list handed to chat.completions.create
    assistant_response,    \* completion.choices[0].message.content
    attempt,               \* loop variable of the retry loop
    audio_data,            \* result.audio_data of a completed synthesis
    trace,                 \* external calls and sleeps of the request
    slept,                 \* seconds spent in time.sleep
    result,                \* dict returned by handle_chat_request
    http                   \* status and JSON body returned by chat()

config == <<SPEECH_KEY, SPEECH_REGION, openai_env, search_env, app,
            search_client, audioFlagEnv, clients>>
vars == <<SPEECH_KEY, SPEECH_REGION, openai_env, search_env, app, sts, data,
          search_client, audioFlagEnv, clients, pc, user_message,
          conversation_history, embedding, documents, messages,
          assistant_response, attempt, audio_data, trace, slept, result,
          http>>

\* environment inputs: the full sets for one request, the small ones when
\* two requests are in flight
Pick(wide, narrow) == IF Cardinality(clients) > 1 THEN narrow ELSE wide

\* the value the module assigns to the flag (line 42): a non-empty string
SHOULD_STREAM_AUDIO_FROM_CHAT_COMPLETION == Str(<<"t", "r", "u", "e">>)

\* openai_client is always constructed at start-up (lines 66-72)
openai_client == Client

NoDict == <<>>
NoResponse == [status |-> 0, body |-> NoDict]

\* the state before the module body runs, for a given set of request slots
InitWith(slots) ==
    /\ SPEECH_KEY \in {None, Str(<<"k", "e", "y">>)}
    /\ SPEECH_REGION \in {None, Str(<<"e", "u">>)}
    /\ openai_env \in BOOLEAN
    /\ search_env \in {"unset", "usable", "raises"}
    /\ app = "starting"
    /\ sts = NoResponse
    /\ data = [r \in Reqs |-> None]
    /\ search_client = None
    /\ audioFlagEnv \in {"true", "false"}
    /\ clients = slots
    /\ pc = [r \in Reqs |-> "idle"]
    /\ user_message = [r \in Reqs |-> None]
    /\ conversation_history = [r \in Reqs |-> None]
    /\ embedding = [r \in Reqs |-> None]
    /\ documents = [r \in Reqs |-> <<>>]
    /\ messages = [r \in Reqs |-> None]
    /\ assistant_response = [r \in Reqs |-> None]
    /\ attempt = [r \in Reqs |-> 0]
    /\ audio_data = [r \in Reqs |-> None]
    /\ trace = [r \in Reqs |-> <<>>]
    /\ slept = [r \in Reqs |-> 0]
    /\ result = [r \in Reqs |-> NoDict]
    /\ http = [r \in Reqs |-> NoResponse]

\* one request at a time
Init == InitWith({1})

\* two requests in flight together
InitConcurrent == InitWith({1, 2})

(* ------------------------- search_documents --------------------------- *)
NA == <<"N", "/", "A">>

\* the dict appended for one search result (lines 119-123)
ToDocument(res) ==
    [title |-> Get(res.title, Str(NA)),
     content |-> Get(res.content, Str(<<>>)),
     source |-> Get(res.source, Str(NA))]

\* value returned by search_documents once the query was issued: the
\* converted results, or [] from the except clause (lines 117-128)
SearchDocuments(out, results) ==
    IF out = "ok"
    THEN [i \in 1..Len(results) |-> ToDocument(results[i])]
    ELSE <<>>

\* a query whose vector is None is rejected by the backend
SearchAccepts(vec, out) == vec.t = "NoneType" => out # "ok"

(* ------------------------ handle_chat_request ------------------------- *)
\* a slice that never raises
SubscriptableAny(x) == TRUE

\* x[:n] raises TypeError unless x is a sequence
Subscriptable(x) == x.t \in {"str", "list", "bytes"}

\* one line of the context block (line 174)
DocLine(doc) ==
    <<"-", " ">> \o Format(doc.title)
      \o <<" ", "(", "S", "o", "u", "r", "c", "e", ":", " ">>
      \o Format(doc.source) \o <<")", ":", " ">>
      \o Take(doc.content.v, ContentCut) \o <<".", ".", ".", "\n">>

RECURSIVE DocLines(_)
DocLines(docs) ==
    IF docs = <<>> THEN <<>>
    ELSE DocLine(Head(docs)) \o DocLines(Tail(docs))

\* search_results_text without the test "if documents:"
SearchResultsTextUnguarded(client, docs) ==
    IF Truthy(client)
    THEN DocumentsHeader \o DocLines(docs)
    ELSE <<>>

\* search_results_text (lines 168-174)
SearchResultsText(client, docs) ==
    IF Truthy(client) /\ docs # <<>>
    THEN DocumentsHeader \o DocLines(docs)
    ELSE <<>>

\* lines 171-179 raise TypeError: a document whose content is None, a
\* history that is not iterable, a message that is not a string
PromptRaises(client, m, h, docs) ==
    \/ Truthy(client) /\ \E i \in 1..Len(docs) : ~Subscriptable(docs[i].content)
    \/ h.t # "list"
    \/ m.t # "str"

\* the user message appended before the history
BuildMessagesHistoryLast(client, m, h, docs) ==
    Lst(<<Turn("system", Str(SystemContent))>>
        \o <<Turn("user", Str(m.v \o SearchResultsText(client, docs)))>>
        \o h.v)

\* the messages list (lines 177-179)
BuildMessages(client, m, h, docs) ==
    Lst(<<Turn("system", Str(SystemContent))>> \o h.v
        \o <<Turn("user", Str(m.v \o SearchResultsText(client, docs)))>>)

\* the history is kept in one place for all requests
SuccessResponseSharedHistory(r, audio) ==
    [text |-> assistant_response[r],
     audio |-> audio,
     conversation_history |->
        Lst(conversation_history[CHOOSE q \in clients : TRUE].v
            \o <<Turn("user", user_message[r]),
                 Turn("assistant", assistant_response[r])>>)]

\* the two appended turns in the wrong order
SuccessResponseSwapped(r, audio) ==
    [text |-> assistant_response[r],
     audio |-> audio,
     conversation_history |->
        Lst(conversation_history[r].v
            \o <<Turn("assistant", assistant_response[r]),
                 Turn("user", user_message[r])>>)]

\* the user turn stores the content sent to the provider
SuccessResponseAugmented(r, audio) ==
    [text |-> assistant_response[r],
     audio |-> audio,
     conversation_history |->
        Lst(conversation_history[r].v
            \o <<Turn("user", messages[r].v[Len(messages[r].v)].content),
                 Turn("assistant", assistant_response[r])>>)]

\* a missing audio is reported as an error of the turn
SuccessResponseAudioRequired(r, audio) ==
    IF audio = None
    THEN [error |-> Str(<<"n", "o", " ", "a", "u", "d", "i", "o">>),
          text |-> assistant_response[r],
          conversation_history |->
             Lst(conversation_history[r].v
                 \o <<Turn("user", user_message[r]),
                      Turn("assistant", assistant_response[r])>>)]
    ELSE [text |-> assistant_response[r],
          audio |-> audio,
          conversation_history |->
             Lst(conversation_history[r].v
                 \o <<Turn("user", user_message[r]),
                      Turn("assistant", assistant_response[r])>>)]

\* a missing audio drops the two new turns
SuccessResponseAudioOnly(r, audio) ==
    [text |-> assistant_response[r],
     audio |-> audio,
     conversation_history |->
        IF audio = None THEN conversation_history[r]
        ELSE Lst(conversation_history[r].v
                 \o <<Turn("user", user_message[r]),
                      Turn("assistant", assistant_response[r])>>)]

\* the dict returned at lines 197-201
SuccessResponse(r, audio) ==
    [text |-> assistant_response[r],
     audio |-> audio,
     conversation_history |->
        Lst(conversation_history[r].v
            \o <<Turn("user", user_message[r]),
                 Turn("assistant", assistant_response[r])>>)]

\* the failed turn still records the user message
ErrorResponseAppends(r, e) ==
    [error |-> Str(e),
     text |-> Str(SorryText),
     conversation_history |->
        Lst(conversation_history[r].v \o <<Turn("user", user_message[r])>>)]

\* the dict returned at line 205
ErrorResponse(r, e) ==
    [error |-> Str(e),
     text |-> Str(SorryText),
     conversation_history |-> conversation_history[r]]

(* ------------------ tts_ssml_and_send_audio_if_needed ----------------- *)
\* time.sleep without its guard
ShouldSleepAlways(a) == TRUE

\* the guard of time.sleep off by one
ShouldSleepEarly(a) == a < MAX_RETRIES - 2

\* the guard of time.sleep (line 156)
ShouldSleep(a) == a < MAX_RETRIES - 1

\* the cancellation branch without its break
BreaksNever(out) == FALSE

\* the break of the cancellation branch (line 153)
Breaks(out) == out = "canceled"

\* a loop bound that admits one more iteration
InRangeInclusive(a) == a <= MAX_RETRIES

\* attempt in range(MAX_RETRIES) (line 141)
InRange(a) == a < MAX_RETRIES

\* the loop has no iteration after a
Exhausted(a) == ~InRange(a + 1)

\* base64.b64encode(audio_data).decode('utf-8') (line 147)
EncodeAudio(b) == Str(B64Encode(b))

(* ------------------------------ chat() -------------------------------- *)
BadRequest == [status |-> 400, body |-> [error |-> Str(EmptyMessageError)]]

\* the framework's own 500 page: no JSON body
InternalServerErrorRaw == [status |-> 500, body |-> NoDict]

InternalServerError ==
    [status |-> 500,
     body |-> [error |-> Str(InternalError), text |-> Str(InternalText)]]

\* return jsonify(response_data) (line 232)
Ok(d) == [status |-> 200, body |-> d]

Reply(r, resp) ==
    /\ http' = [http EXCEPT ![r] = resp]
    /\ pc' = [pc EXCEPT ![r] = "done"]

\* handle_chat_request returns d and chat() sends it
Return(r, d) ==
    /\ result' = [result EXCEPT ![r] = d]
    /\ Reply(r, Ok(d))

Log(r, events) == trace' = [trace EXCEPT ![r] = @ \o events]

(* --------------------- start-up and /sts_token ------------------------ *)
\* start-up without the check of the speech credentials
StartupFailsOpenAiOnly(key, region, openai) == ~openai

\* the module body raises ValueError (lines 59-60, 66-67)
StartupFails(key, region, openai) ==
    ~Truthy(key) \/ ~Truthy(region) \/ ~openai

NotConfiguredError ==
    <<"S", "p", "e", "e", "c", "h", " ", "k", "e", "y", " ", "o", "r", " ",
      "r", "e", "g", "i", "o", "n", " ", "n", "o", "t", " ", "c", "o", "n",
      "f", "i", "g", "u", "r", "e", "d", " ", "o", "n", " ", "t", "h", "e",
      " ", "s", "e", "r", "v", "e", "r", ".">>

\* the response of get_sts_token (lines 252-260)
StsResponse(key, region) ==
    IF ~Truthy(key) \/ ~Truthy(region)
    THEN [status |-> 500, body |-> [error |-> Str(NotConfiguredError)]]
    ELSE [status |-> 200, body |-> [token |-> key, region |-> region]]

(* ------------------------------ actions ------------------------------- *)
\* the parsed request body with its two keys
Dict(msg, hist) == [t |-> "dict", v |-> <<msg, hist>>]

\* POST /chat arrives: lines 223-231 up to the first external call
Chat(r) ==
    /\ app = "running"
    /\ pc[r] = "idle"
    /\ r \in clients
    /\ \E json \in {"object", "null"},
          msg \in Pick(MessageInputs, ConcurrentMessageInputs) \cup {Absent},
          hist \in Pick(HistoryInputs, ConcurrentHistoryInputs) \cup {Absent} :
         /\ json = "null" => (msg = Absent /\ hist = Absent)
         /\ IF json = "null"
            THEN \* data is None: data.get raises, caught at line 234
                 /\ Reply(r, InternalServerError)
                 /\ UNCHANGED <<data, user_message, conversation_history>>
            ELSE /\ data' = [data EXCEPT ![r] = Dict(msg, hist)]
                 /\ user_message' = [user_message EXCEPT ![r] = Get(msg, None)]
                 /\ conversation_history' =
                      [conversation_history EXCEPT ![r] = Get(hist, Lst(<<>>))]
                 /\ IF ~Truthy(Get(msg, None))
                    THEN Reply(r, BadRequest)
                    ELSE /\ pc' = [pc EXCEPT ![r] =
                                     IF Truthy(search_client)
                                     THEN "embed" ELSE "prompt"]
                         /\ UNCHANGED http
    /\ UNCHANGED <<config, sts, embedding, documents, messages,
                   assistant_response, attempt, audio_data, trace, slept,
                   result>>

\* generate_embeddings (lines 91-101)
Embed(r) ==
    /\ pc[r] = "embed"
    /\ \E out \in EmbedOutcomes :
         /\ embedding' = [embedding EXCEPT ![r] =
                            IF Truthy(openai_client) /\ out = "ok"
                            THEN Vector ELSE None]
         /\ Log(r, <<Event("embed", out)>>)
    /\ pc' = [pc EXCEPT ![r] = "search"]
    /\ UNCHANGED <<config, sts, data, user_message, conversation_history, documents,
                   messages, assistant_response, attempt, audio_data, slept,
                   result, http>>

\* the query and the result loop of search_documents (lines 109-128)
Search(r) ==
    /\ pc[r] = "search"
    /\ \E out \in Pick(SearchOutcomes, ConcurrentSearchOutcomes),
          results \in Pick(ResultLists, ConcurrentResultLists) \cup {<<>>} :
         /\ out # "ok" => results = <<>>
         /\ (out = "ok" /\ Cardinality(clients) > 1) => results # <<>>
         /\ SearchAccepts(embedding[r], out)
         /\ documents' = [documents EXCEPT ![r] = SearchDocuments(out, results)]
         /\ Log(r, <<Event("search", out)>>)
    /\ pc' = [pc EXCEPT ![r] = "prompt"]
    /\ UNCHANGED <<config, sts, data, user_message, conversation_history, embedding,
                   messages, assistant_response, attempt, audio_data, slept,
                   result, http>>

\* lines 168-179; a TypeError leaves handle_chat_request and is caught by
\* chat() at line 234
BuildPrompt(r) ==
    /\ pc[r] = "prompt"
    /\ IF PromptRaises(search_client, user_message[r],
                       conversation_history[r], documents[r])
       THEN /\ Reply(r, InternalServerError)
            /\ UNCHANGED messages
       ELSE /\ messages' = [messages EXCEPT ![r] =
                              BuildMessages(search_client, user_message[r],
                                            conversation_history[r],
                                            documents[r])]
            /\ pc' = [pc EXCEPT ![r] = "complete"]
            /\ UNCHANGED http
    /\ UNCHANGED <<config, sts, data, user_message, conversation_history, embedding,
                   documents, assistant_response, attempt, audio_data, trace,
                   slept, result>>

\* chat.completions.create and the extraction of the reply (lines 181-190,
\* 203-205)
Complete(r) ==
    /\ pc[r] = "complete"
    /\ \E out \in Pick(CompletionOutcomes, ConcurrentCompletionOutcomes),
          reply \in Replies \cup {<<>>} :
         /\ (reply = <<>>) <=> (out # "ok")
         /\ Log(r, <<Event("completion", out)>>)
         /\ IF out = "raise"
            THEN /\ Return(r, ErrorResponse(r, ProviderErrorText))
                 /\ UNCHANGED assistant_response
            ELSE LET content == IF out = "ok" THEN Str(reply) ELSE None
                 IN /\ assistant_response' =
                         [assistant_response EXCEPT ![r] = content]
                    /\ IF Subscriptable(content)
                       THEN /\ pc' = [pc EXCEPT ![r] = "audio"]
                            /\ UNCHANGED <<result, http>>
                       ELSE \* assistant_response[:100] raises inside the try
                            Return(r, ErrorResponse(r, NotSubscriptable))
    /\ UNCHANGED <<config, sts, data, user_message, conversation_history, embedding,
                   documents, messages, attempt, audio_data, slept>>

\* the flag tests of lines 193 and 135, entry of the retry loop
Synthesize(r) ==
    /\ pc[r] = "audio"
    /\ IF Truthy(SHOULD_STREAM_AUDIO_FROM_CHAT_COMPLETION)
       THEN /\ pc' = [pc EXCEPT ![r] = "tts"]
            /\ attempt' = [attempt EXCEPT ![r] = 0]
            /\ UNCHANGED <<result, http>>
       ELSE /\ Return(r, SuccessResponse(r, None))
            /\ UNCHANGED attempt
    /\ UNCHANGED <<config, sts, data, user_message, conversation_history, embedding,
                   documents, messages, assistant_response, audio_data,
                   trace, slept>>

\* one iteration of the retry loop (lines 141-160) and, when the loop is
\* left, the return of handle_chat_request (lines 197-201)
Speak(r) ==
    /\ pc[r] = "tts"
    /\ InRange(attempt[r])
    /\ \E out \in Pick(SpeakOutcomes, ConcurrentSpeakOutcomes),
          bytes \in Pick(AudioChoices, ConcurrentAudioChoices) \cup {<<>>} :
         /\ out # "completed" => bytes = <<>>
         /\ (out = "completed" /\ Cardinality(clients) > 1) => bytes # <<>>
         /\ LET sleeps == out = "raise" /\ ShouldSleep(attempt[r])
            IN /\ Log(r, <<Event("speak", out)>>
                         \o IF sleeps THEN <<Event("sleep", "RETRY_DELAY")>>
                            ELSE <<>>)
               /\ slept' = [slept EXCEPT ![r] =
                              IF sleeps THEN @ + RETRY_DELAY ELSE @]
         /\ IF out = "completed"
            THEN /\ audio_data' = [audio_data EXCEPT ![r] = Bytes(bytes)]
                 /\ Return(r, SuccessResponse(r, EncodeAudio(bytes)))
                 /\ UNCHANGED attempt
            ELSE /\ UNCHANGED audio_data
                 /\ IF Breaks(out) \/ Exhausted(attempt[r])
                    THEN /\ Return(r, SuccessResponse(r, None))
                         /\ UNCHANGED attempt
                    ELSE /\ attempt' = [attempt EXCEPT ![r] = @ + 1]
                         /\ UNCHANGED <<pc, result, http>>
    /\ UNCHANGED <<config, sts, data, user_message, conversation_history, embedding,
                   documents, messages, assistant_response>>

\* the module body: the checks of lines 59-60 and 66-67 raise ValueError,
\* lines 75-88 set search_client
Startup ==
    /\ app = "starting"
    /\ IF StartupFails(SPEECH_KEY, SPEECH_REGION, openai_env)
       THEN /\ app' = "failed"
            /\ UNCHANGED search_client
       ELSE /\ app' = "running"
            /\ search_client' = IF search_env = "usable" THEN Client ELSE None
    /\ UNCHANGED <<SPEECH_KEY, SPEECH_REGION, openai_env, search_env, sts,
                   data, audioFlagEnv, clients, pc, user_message,
                   conversation_history, embedding, documents, messages,
                   assistant_response, attempt, audio_data, trace, slept,
                   result, http>>

\* GET /sts_token (lines 239-260)
GetStsToken ==
    /\ app = "running"
    /\ sts = NoResponse
    /\ sts' = StsResponse(SPEECH_KEY, SPEECH_REGION)
    /\ UNCHANGED <<config, data, pc, user_message, conversation_history,
                   embedding, documents, messages, assistant_response,
                   attempt, audio_data, trace, slept, result, http>>

Next ==
    \/ Startup
    \/ GetStsToken
    \/ \E r \in Reqs :
        \/ Chat(r)
        \/ Embed(r)
        \/ Search(r)
        \/ BuildPrompt(r)
        \/ Complete(r)
        \/ Synthesize(r)
        \/ Speak(r)

Spec == Init /\ [][Next]_vars

SpecConcurrent == InitConcurrent /\ [][Next]_vars

\* every engine call returns: a request in the retry loop takes its next
\* iteration
SpecFair == Init /\ [][Next]_vars /\ \A r \in Reqs : WF_vars(Speak(r))

(* ===================== properties of the program ====================== *)
Done(r) == pc[r] = "done"

\* handle_chat_request has returned a dict
Returned(r) == result[r] # NoDict

Called(r, op) == \E i \in 1..Len(trace[r]) : trace[r][i].op = op

Happened(r, op, out) == \E i \in 1..Len(trace[r]) : trace[r][i] = Event(op, out)

\* the completion provider delivered a reply text
Succeeded(r) == Happened(r, "completion", "ok")

\* the completion step failed: the call raised, or its reply has no text
CompletionFailed(r) ==
    Happened(r, "completion", "raise") \/ Happened(r, "completion", "null")

IsSpeak(e) == e.op = "speak"
IsTts(e) == e.op \in {"speak", "sleep"}

\* outcomes of the engine calls of the turn, in order
SpeakOuts(r) ==
    LET calls == SelectSeq(trace[r], IsSpeak)
    IN [i \in 1..Len(calls) |-> calls[i].out]

\* engine calls and sleeps of the turn, in order
TtsEvents(r) == SelectSeq(trace[r], IsTts)

InputHistory(r) == conversation_history[r].v
OutputHistory(r) == result[r].conversation_history.v

\* the user message of the list sent to the provider
SentPrompt(r) == messages[r].v[Len(messages[r].v)]

(* ------------------------------- C1 ----------------------------------- *)
\* C1: when the completion provider succeeds with reply r, the returned
\* conversation_history is the input history followed by exactly two
\* turns, {user, message} then {assistant, r}, so its length is
\* len(history) + 2, whatever search and synthesis did.
C1_HistoryExtendedByTwo ==
    \A r \in Reqs :
        (Returned(r) /\ Succeeded(r)) =>
            LET n == Len(InputHistory(r))
                out == OutputHistory(r)
            IN /\ result[r].conversation_history.t = "list"
               /\ Len(out) = n + 2
               /\ SubSeq(out, 1, n) = InputHistory(r)
               /\ out[n + 1] = Turn("user", user_message[r])
               /\ out[n + 2] = Turn("assistant", assistant_response[r])
               /\ user_message[r].v \in ValidMessages
               /\ assistant_response[r].v \in Replies

C1_Witness ==
    \E r \in Reqs :
        /\ Returned(r) /\ Succeeded(r)
        /\ Len(InputHistory(r)) >= 1
        /\ documents[r] # <<>>
        /\ Happened(r, "speak", "raise")

(* ------------------------------- C2 ----------------------------------- *)
\* C2: when the completion provider call fails, the returned
\* conversation_history equals the input history (nothing appended), the
\* text is "Sorry, I encountered an error.", there is an error field and
\* no audio value.
C2_FailureKeepsHistory ==
    \A r \in Reqs :
        CompletionFailed(r) =>
            /\ Returned(r)
            /\ result[r].conversation_history = conversation_history[r]
            /\ result[r].text = Str(SorryText)
            /\ "error" \in DOMAIN result[r]
            /\ "audio" \notin DOMAIN result[r]
            /\ http[r] = Ok(result[r])

C2_Witness ==
    \E r \in Reqs :
        /\ Happened(r, "completion", "raise")
        /\ Len(InputHistory(r)) >= 1
        /\ documents[r] # <<>>

(* ------------------------------- C3 ----------------------------------- *)
\* C3: the response of handle_chat_request carries an error field if and
\* only if the completion step failed (the call raised or delivered no
\* reply text); a failure of embedding, search or synthesis never yields an
\* error field or a history other than input + 2 turns.
C3_ErrorOnlyFromCompletion ==
    \A r \in Reqs :
        Returned(r) =>
            /\ ("error" \in DOMAIN result[r]) <=> CompletionFailed(r)
            /\ ~CompletionFailed(r) =>
                 /\ Succeeded(r)
                 /\ Len(OutputHistory(r)) = Len(InputHistory(r)) + 2
                 /\ http[r].status = 200

C3_Witness ==
    \E r \in Reqs :
        /\ Returned(r)
        /\ Happened(r, "embed", "raise")
        /\ Happened(r, "search", "raise_iter")
        /\ SpeakOuts(r) = <<"raise", "raise", "raise">>
        /\ "error" \notin DOMAIN result[r]

\* t occurs in s
HasSubSeq(s, t) ==
    \E i \in 0..(Len(s) - Len(t)) : SubSeq(s, i + 1, i + Len(t)) = t

(* ------------------------------- C4 ----------------------------------- *)
\* C4: retrieval augmentation never reaches the returned conversation
\* state: the stored user turn holds the original message, no returned turn
\* holds the augmented prompt, and the two appended turns are built from
\* the message and the reply alone, whatever documents search returned.
C4_NoAugmentationInHistory ==
    \A r \in Reqs :
        (Returned(r) /\ Succeeded(r)) =>
            LET out == OutputHistory(r)
            IN /\ out[Len(out) - 1].content = user_message[r]
               /\ \A i \in 1..Len(out) :
                    /\ ~HasSubSeq(out[i].content.v, DocumentsHeader)
                    /\ documents[r] # <<>> => out[i] # SentPrompt(r)
               /\ \A i \in 1..Len(out) :
                    \/ i <= Len(InputHistory(r)) /\ out[i] = InputHistory(r)[i]
                    \/ out[i].content \in {user_message[r], assistant_response[r]}

C4_Witness ==
    \E r \in Reqs :
        /\ Returned(r) /\ Succeeded(r)
        /\ Len(documents[r]) = top_n
        /\ SentPrompt(r).content # user_message[r]

C5_WitnessDisabled ==
    \E r \in Reqs : ~Truthy(search_client) /\ Called(r, "completion")

RECURSIVE Raises(_)
Raises(k) == IF k = 0 THEN <<>> ELSE <<"raise">> \o Raises(k - 1)

\* (call fails, sleep) k times, then the call that completes
RECURSIVE FailThenSucceed(_)
FailThenSucceed(k) ==
    IF k = 0 THEN <<Event("speak", "completed")>>
    ELSE <<Event("speak", "raise"), Event("sleep", "RETRY_DELAY")>>
           \o FailThenSucceed(k - 1)

B64Index(c) == CHOOSE i \in 0..63 : B64Alphabet[i + 1] = c

\* the bytes a base64 text stands for
RECURSIVE B64Decode(_)
B64Decode(s) ==
    IF Len(s) < 4 THEN <<>>
    ELSE LET n1 == B64Index(s[1])
             n2 == B64Index(s[2])
             b1 == n1 * 4 + n2 \div 16
             rest == B64Decode(SubSeq(s, 5, Len(s)))
         IN IF s[3] = "=" THEN <<b1>>
            ELSE LET n3 == B64Index(s[3])
                     b2 == (n2 % 16) * 16 + n3 \div 4
                 IN IF s[4] = "=" THEN <<b1, b2>>
                    ELSE <<b1, b2, (n3 % 4) * 64 + B64Index(s[4])>> \o rest

\* C7: when the first k engine calls raise (0 <= k < MAX_RETRIES) and call
\* k+1 completes, the synthesizer returns the encoded audio of call k+1
\* after exactly k+1 calls and k sleeps of RETRY_DELAY, each sleep before
\* the next call, and makes no call after the success.
C7_RetryThenSuccess ==
    \A r \in Reqs :
        /\ \A i \in 1..Len(trace[r]) :
             trace[r][i] = Event("speak", "completed") => i = Len(trace[r])
        /\ \A k \in 0..(MAX_RETRIES - 1) :
             SpeakOuts(r) = Raises(k) \o <<"completed">> =>
                /\ TtsEvents(r) = FailThenSucceed(k)
                /\ Len(SpeakOuts(r)) = k + 1
                /\ slept[r] = k * RETRY_DELAY
                /\ Returned(r)
                /\ result[r].audio.t = "str"
                /\ Len(result[r].audio.v) = 4 * ((Len(audio_data[r].v) + 2) \div 3)
                /\ B64Decode(result[r].audio.v) = audio_data[r].v

C7_Witness ==
    \E r \in Reqs :
        /\ SpeakOuts(r) = <<"raise", "raise", "completed">>
        /\ audio_data[r] = Bytes(<<77, 97, 110, 33>>)
        /\ result[r].audio =
             Str(<<"T", "W", "F", "u", "I", "Q", "=", "=">>)

(* ------------------------------- C8 ----------------------------------- *)
\* C8: when the engine signals cancellation on any attempt, the
\* synthesizer returns null and makes no engine call and no sleep after
\* that attempt; cancellation on the first call yields null after exactly
\* one call.
C8_CancellationStopsRetries ==
    \A r \in Reqs :
        \A i \in 1..Len(trace[r]) :
            trace[r][i] = Event("speak", "canceled") =>
                /\ i = Len(trace[r])
                /\ Returned(r)
                /\ result[r].audio = None
                /\ (SpeakOuts(r)[1] = "canceled" => Len(TtsEvents(r)) = 1)

C8_Witness ==
    \E r \in Reqs :
        /\ SpeakOuts(r) = <<"canceled">>
        /\ Returned(r)

C8_WitnessThird ==
    \E r \in Reqs :
        /\ SpeakOuts(r) = <<"raise", "raise", "canceled">>
        /\ Returned(r)

(* ------------------------------- C9 ----------------------------------- *)
\* C9: the synthesizer never raises to its caller and a null synthesis
\* result does not fail the turn: when the completion provider succeeded
\* and synthesis ended in null, handle_chat_request returns the reply text,
\* audio = null, the history extended by two turns and no error field.
C9_NullAudioKeepsTurn ==
    \A r \in Reqs :
        (Done(r) /\ SpeakOuts(r) # <<>>
           /\ SpeakOuts(r)[Len(SpeakOuts(r))] # "completed") =>
              /\ Returned(r)
              /\ http[r].status = 200
              /\ http[r].body = result[r]
              /\ DOMAIN result[r] = {"text", "audio", "conversation_history"}
              /\ result[r].text = assistant_response[r]
              /\ result[r].audio = None
              /\ Len(OutputHistory(r)) = Len(InputHistory(r)) + 2

C9_Witness ==
    \E r \in Reqs :
        /\ Done(r)
        /\ SpeakOuts(r) = <<"raise", "raise", "raise">>
        /\ result[r].text = Str(<<"o", "k">>)

(* ------------------------------- C10 ---------------------------------- *)
\* a request body the interface admits: a non-empty string and a list
ValidRequest(r) ==
    /\ user_message[r].t = "str"
    /\ Truthy(user_message[r])
    /\ conversation_history[r].t = "list"

\* C10: search_documents never fails its caller: for every outcome of
\* embedding generation and of the search backend it returns a sequence of
\* documents, empty on any failure, and handle_chat_request always
\* proceeds to the completion call.
C10_SearchNeverFailsTurn ==
    \A r \in Reqs :
        /\ (Called(r, "search") /\ ~Happened(r, "search", "ok")) =>
              documents[r] = <<>>
        /\ (Called(r, "search") /\ ValidRequest(r) /\ Done(r)) =>
              Called(r, "completion")

(* ------------------------------- C11 ---------------------------------- *)
\* C11: when embedding generation fails, search_documents returns the
\* empty sequence without issuing a similarity query; a query is issued
\* only when an embedding vector was obtained.
C11_NoQueryWithoutEmbedding ==
    \A r \in Reqs :
        /\ Happened(r, "embed", "raise") => ~Called(r, "search")
        /\ Called(r, "search") => embedding[r] = Vector

(* ------------------------------- C12 ---------------------------------- *)
\* the message and history the request body carries
SentMessage(r) == Get(data[r].v[1], None)
SentHistory(r) == Get(data[r].v[2], Lst(<<>>))

\* C12: every POST /chat request whose body has no message or an empty
\* one is answered with status 400 and a body containing an error field,
\* and none of search, completion or synthesis is invoked for it.
C12_EmptyMessageRejected ==
    \A r \in Reqs :
        (data[r].t = "dict" /\ SentMessage(r) \in {None, Str(<<>>)}) =>
            /\ Done(r)
            /\ http[r].status = 400
            /\ "error" \in DOMAIN http[r].body
            /\ trace[r] = <<>>
            /\ ~Returned(r)

C12_Witness ==
    \E r \in Reqs :
        /\ data[r].t = "dict"
        /\ data[r].v[1] = Str(<<>>)
        /\ http[r].status = 400

C12_WitnessAbsent ==
    \E r \in Reqs :
        /\ data[r].t = "dict"
        /\ data[r].v[1] = Absent
        /\ http[r].status = 400

(* ------------------------------- C13 ---------------------------------- *)
\* C13: every request to POST /chat ends in exactly one of a 200
\* ChatResponse, a 400 error body or a 500 body with error and text
\* fields; an exception raised while parsing the request or inside
\* handle_chat_request outside its try block (building the prompt) is
\* converted to the 500 body.
C13_StructuredResponses ==
    \A r \in Reqs :
        /\ ~Done(r) => http[r] = NoResponse
        /\ Done(r) =>
             \/ /\ http[r].status = 200
                /\ Returned(r)
                /\ http[r].body = result[r]
                /\ {"text", "conversation_history"} \subseteq DOMAIN result[r]
             \/ /\ http[r].status = 400
                /\ DOMAIN http[r].body = {"error"}
                /\ ~Returned(r)
             \/ /\ http[r].status = 500
                /\ DOMAIN http[r].body = {"error", "text"}
                /\ ~Returned(r)
        /\ (Done(r) /\ data[r].t # "dict") => http[r].status = 500
        /\ (Done(r) /\ data[r].t = "dict" /\ Truthy(SentMessage(r))
              /\ PromptRaises(search_client, SentMessage(r), SentHistory(r),
                              documents[r])) =>
                 /\ http[r].status = 500
                 /\ ~Called(r, "completion")

C13_Witness ==
    \E r \in Reqs :
        /\ Done(r)
        /\ http[r].status = 500
        /\ ValidRequest(r)
        /\ documents[r] # <<>>

C13_WitnessParse ==
    \E r \in Reqs : Done(r) /\ data[r].t # "dict" /\ http[r].status = 500

(* ------------------------------- C14 ---------------------------------- *)
SpeechConfigured == Truthy(SPEECH_KEY) /\ Truthy(SPEECH_REGION)

\* C14 as stated: GET /sts_token returns 200 with token and region
\* populated when the speech credentials are configured, and returns 500
\* when they are unset.
C14_TokenOrServerError ==
    /\ sts # NoResponse =>
         IF SpeechConfigured
         THEN /\ sts.status = 200
              /\ Truthy(sts.body.token) /\ Truthy(sts.body.region)
         ELSE sts.status = 500
    /\ (app # "starting" /\ openai_env /\ sts = NoResponse) =>
          ENABLED GetStsToken

\* C14 amended: GET /sts_token returns 200 with token and region populated
\* when the speech credentials are configured; when they are unset the
\* process stops at start-up and no request to /sts_token is answered.
C14_TokenWhenConfigured ==
    /\ sts # NoResponse =>
         /\ SpeechConfigured
         /\ sts.status = 200
         /\ DOMAIN sts.body = {"token", "region"}
         /\ sts.body.token = SPEECH_KEY /\ Truthy(sts.body.token)
         /\ sts.body.region = SPEECH_REGION /\ Truthy(sts.body.region)
    /\ (SpeechConfigured /\ app = "running" /\ sts = NoResponse) =>
          ENABLED GetStsToken
    /\ ~SpeechConfigured =>
         /\ app \in {"starting", "failed"}
         /\ sts = NoResponse
         /\ \A r \in Reqs : pc[r] = "idle"

C14_Witness == sts # NoResponse /\ sts.status = 200

C14_WitnessUnset == ~SpeechConfigured /\ openai_env /\ app = "failed"

(* ------------------------------- C15 ---------------------------------- *)
C15_Bounded ==
    \A r \in Reqs :
        /\ Len(SpeakOuts(r)) <= MAX_RETRIES
        /\ pc[r] = "tts" =>
             /\ attempt[r] = Len(SpeakOuts(r))
             /\ attempt[r] < MAX_RETRIES
             /\ ENABLED Speak(r)
        /\ Len(SpeakOuts(r)) = MAX_RETRIES => (Done(r) /\ Returned(r))
        /\ (Done(r) /\ SpeakOuts(r) # <<>>
              /\ \A i \in 1..Len(SpeakOuts(r)) : SpeakOuts(r)[i] # "completed")
             => result[r].audio = None

\* C15: for every sequence of engine outcomes one call of the synthesizer
\* makes at most MAX_RETRIES engine calls and then returns, with null when
\* no attempt completed; a turn that entered the retry loop always leaves
\* it (each engine call returns).
C15_RetryLoopTerminates ==
    /\ []C15_Bounded
    /\ \A r \in Reqs : (pc[r] = "tts") ~> Done(r)

C15_Witness ==
    \E r \in Reqs :
        /\ Done(r)
        /\ SpeakOuts(r) = <<"other", "raise", "other">>
        /\ result[r].audio = None

(* ------------------------------- C16 ---------------------------------- *)
\* C16: after any synthesis attempt that ends neither in completion nor in
\* cancellation (an exception or another unexpected result), if attempts
\* remain the synthesizer sleeps RETRY_DELAY exactly once before the next
\* engine call; every engine call after the first is immediately preceded
\* by one sleep.
C16_SleepBeforeEveryRetry ==
    \A r \in Reqs :
        LET ev == TtsEvents(r)
        IN \A i \in 2..Len(ev) :
             ev[i].op = "speak" =>
                /\ ev[i - 1].op = "sleep"
                /\ i > 2 => ev[i - 2].op = "speak"

(* ------------------------------- C17 ---------------------------------- *)
IsSleep(e) == e.op = "sleep"

Sleeps(r) == Len(SelectSeq(trace[r], IsSleep))

\* C17: in one call of the synthesizer the number of RETRY_DELAY sleeps is
\* at most MAX_RETRIES - 1 = 2 and no sleep follows the final attempt, so
\* the time spent sleeping never exceeds MAX_RETRIES x RETRY_DELAY = 6
\* seconds.
C17_SleepBudget ==
    \A r \in Reqs :
        /\ Sleeps(r) <= MAX_RETRIES - 1
        /\ Sleeps(r) <= 2
        /\ slept[r] = Sleeps(r) * RETRY_DELAY
        /\ slept[r] <= MAX_RETRIES * RETRY_DELAY
        /\ slept[r] <= 6
        /\ (Done(r) /\ trace[r] # <<>>) => trace[r][Len(trace[r])].op # "sleep"
        /\ \A i \in 1..Len(TtsEvents(r)) :
             TtsEvents(r)[i].op = "sleep" =>
                Len(SelectSeq(SubSeq(TtsEvents(r), 1, i), IsSpeak))
                   < MAX_RETRIES

C17_Witness ==
    \E r \in Reqs :
        /\ Done(r)
        /\ SpeakOuts(r) = <<"raise", "raise", "raise">>
        /\ slept[r] = 4

(* ------------------------------- C18 ---------------------------------- *)
\* the place of an external call in the turn
Rank(op) ==
    CASE op = "embed" -> 1
      [] op = "search" -> 2
      [] op = "completion" -> 3
      [] OTHER -> 4

Count(r, op) ==
    Cardinality({i \in 1..Len(trace[r]) : trace[r][i].op = op})

\* C18: within one turn the external calls happen in a fixed order:
\* search (embedding, then vector query) if a search client exists, then
\* exactly one completion call, then synthesis; the engine is invoked only
\* after the completion call has succeeded, never in a turn whose
\* completion call failed.
C18_CallOrder ==
    \A r \in Reqs :
        /\ \A i, j \in 1..Len(trace[r]) :
             i < j => Rank(trace[r][i].op) <= Rank(trace[r][j].op)
        /\ Count(r, "embed") <= 1
        /\ Count(r, "search") <= 1
        /\ Count(r, "completion") <= 1
        /\ (Called(r, "embed") \/ Called(r, "search")) => Truthy(search_client)
        /\ Called(r, "search") => Called(r, "embed")
        /\ (Called(r, "completion") /\ Truthy(search_client)) =>
              Called(r, "search")
        /\ (Called(r, "speak") \/ pc[r] \in {"audio", "tts"}) =>
              /\ trace[r][Count(r, "embed") + Count(r, "search") + 1]
                    = Event("completion", "ok")
              /\ ~CompletionFailed(r)
        /\ CompletionFailed(r) => trace[r][Len(trace[r])].op = "completion"

C18_Witness ==
    \E r \in Reqs :
        /\ Done(r)
        /\ Len(trace[r]) = 8
        /\ trace[r][1].op = "embed"
        /\ trace[r][2].op = "search"
        /\ trace[r][3].op = "completion"
        /\ trace[r][8].op = "speak"

C18_WitnessFailed ==
    \E r \in Reqs :
        /\ Done(r)
        /\ Happened(r, "completion", "null")
        /\ Truthy(search_client)

(* ------------------------------- C19 ---------------------------------- *)
\* C19: the message list sent to the completion provider is one fixed
\* system message, then the input history verbatim and in order, then
\* exactly one user message (the user message plus the retrieved-document
\* block, if any); its length is len(history) + 2 and building it leaves
\* the input history unchanged.
C19_ProviderMessages ==
    \A r \in Reqs :
        /\ Called(r, "completion") => messages[r].t = "list"
        /\ data[r].t = "dict" =>
             /\ conversation_history[r] = SentHistory(r)
             /\ user_message[r] = SentMessage(r)
        /\ messages[r].t = "list" =>
             LET sent == messages[r].v
                 n == Len(SentHistory(r).v)
                 m == SentMessage(r).v
                 block == SubSeq(sent[n + 2].content.v, Len(m) + 1,
                                 Len(sent[n + 2].content.v))
             IN /\ Len(sent) = n + 2
                /\ sent[1] = Turn("system", Str(SystemContent))
                /\ SubSeq(sent, 2, n + 1) = SentHistory(r).v
                /\ sent[n + 2].role = "user"
                /\ sent[n + 2].content.t = "str"
                /\ SubSeq(sent[n + 2].content.v, 1, Len(m)) = m
                /\ documents[r] = <<>> => block = <<>>
                /\ documents[r] # <<>> =>
                     /\ SubSeq(block, 1, Len(DocumentsHeader))
                          = DocumentsHeader
                     /\ Len(SelectSeq(block, LAMBDA c : c = "\n"))
                          = 3 + Len(documents[r])

C19_Witness ==
    \E r \in Reqs :
        /\ Called(r, "completion")
        /\ Len(SentHistory(r).v) = 2
        /\ Len(documents[r]) = 2

(* ------------------------------- C20 ---------------------------------- *)
\* everything a request owns
RequestState(r) ==
    <<pc[r], data[r], user_message[r], conversation_history[r],
      embedding[r], documents[r], messages[r], assistant_response[r],
      attempt[r], audio_data[r], trace[r], slept[r], result[r], http[r]>>

\* the audio a turn run alone returns for its own engine outcomes
AloneAudio(r) ==
    IF SpeakOuts(r) # <<>> /\ SpeakOuts(r)[Len(SpeakOuts(r))] = "completed"
    THEN Str(B64Encode(audio_data[r].v))
    ELSE None

\* the response of the request run alone with its own body and the
\* outcomes of its own external calls
AloneResponse(r) ==
    IF data[r].t # "dict" THEN InternalServerError
    ELSE IF SentMessage(r) \in {None, Str(<<>>)} THEN BadRequest
    ELSE IF PromptRaises(search_client, SentMessage(r), SentHistory(r),
                         documents[r])
    THEN InternalServerError
    ELSE IF Happened(r, "completion", "raise")
    THEN [status |-> 200,
          body |-> [error |-> Str(ProviderErrorText),
                    text |-> Str(SorryText),
                    conversation_history |-> SentHistory(r)]]
    ELSE IF Happened(r, "completion", "null")
    THEN [status |-> 200,
          body |-> [error |-> Str(NotSubscriptable),
                    text |-> Str(SorryText),
                    conversation_history |-> SentHistory(r)]]
    ELSE [status |-> 200,
          body |-> [text |-> assistant_response[r],
                    audio |-> AloneAudio(r),
                    conversation_history |->
                       Lst(SentHistory(r).v
                           \o <<Turn("user", SentMessage(r)),
                                Turn("assistant", assistant_response[r])>>)]]

C20_OwnResponse ==
    \A r \in Reqs : Done(r) => http[r] = AloneResponse(r)

\* a step writes the state of at most one request, and no step of a
\* running server writes the state all requests read
C20_StepIsLocal ==
    /\ \E q \in Reqs :
         \A r \in Reqs \ {q} : RequestState(r)' = RequestState(r)
    /\ app = "running" => config' = config

\* C20: requests do not interfere: for any interleaving of concurrent chat
\* turns each turn's response is the one it would get if run alone with
\* the same input and the same outcomes of its own external calls, and no
\* state written by one request is read by another.
C20_RequestsIndependent ==
    /\ []C20_OwnResponse
    /\ [][C20_StepIsLocal]_vars

C20_Witness ==
    /\ Done(1) /\ Returned(1)
    /\ pc[2] = "tts" /\ attempt[2] = 2
    /\ SentMessage(1) # SentMessage(2)
    /\ SentHistory(1) # SentHistory(2)
    /\ documents[1] # documents[2]

C20_WitnessBoth ==
    /\ Done(1) /\ Returned(1)
    /\ Done(2) /\ Returned(2)
    /\ result[1].conversation_history # result[2].conversation_history
    /\ result[1].text # result[2].text

====
